---- MODULE Spec2Model ----
(***************************************************************************)
(* zcache: a process-wide key -> (valid_until, value) store behind a       *)
(* mutex, with read / write / fetch / clear (src/src/lib.rs).              *)
(*                                                                         *)
(* Time is counted in ticks, TicksPerMilli ticks to the millisecond, so    *)
(* that the two truncating conversions of the code (SystemTime -> millis   *)
(* in now_in_millis, Duration -> millis in Duration::as_millis) are        *)
(* modelled as truncations and not as the identity.                        *)
(***************************************************************************)
EXTENDS Integers, FiniteSets, Sequences, TLC

\* ---------------------------------------------------------------- bounds
Procs == {"t1", "t2"}
Keys == {"key1", "key2"}
\* The key the two threads of Spec contend for.
SharedKeys == {"key1"}
Values == {"Int(1)", "Text(hi)"}
\* Sub-millisecond resolution of the wall clock and of Duration.
TicksPerMilli == 2
\* The wall clock, in ticks since the epoch, runs up to MaxClock.
MaxClock == 4
\* Durations handed to write / fetch: 0 .. MaxDuration ticks.
MaxDuration == 2

\* ------------------------------------------------------------ data types
\* Option<Duration>
NoDuration == [some |-> FALSE, dur |-> 0]
SomeDuration(d) == [some |-> TRUE, dur |-> d]
Expiries == {NoDuration} \cup {SomeDuration(d) : d \in 0..MaxDuration}

\* Option<ZEntry>, Result<ZEntry, ZCacheError>, ()
NoResult == [tag |-> "", val |-> ""]
None == [tag |-> "None", val |-> ""]
Some(v) == [tag |-> "Some", val |-> v]
Ok(v) == [tag |-> "Ok", val |-> v]
FetchError(k) == [tag |-> "FetchError", val |-> k]
Unit == [tag |-> "()", val |-> ""]

NoCall == [op |-> "none", key |-> "", value |-> "", expires_in |-> NoDuration]

VARIABLES
  store,        \* the HashMap behind ZCACHE_STORE: key -> (valid_until, value)
  lock,         \* owner of the mutex of the current store, or "unlocked"
  dangling,     \* threads holding a MutexGuard of a store that clear() dropped
  clock,        \* the wall clock, in ticks since the epoch
  pc,           \* each thread's position
  call,         \* each thread's operation and arguments
  valid_until,  \* write's local valid_until
  at,           \* the clock (ticks) at which write read now_in_millis()
  invoked,      \* producer invocations of the thread's current fetch
  result,       \* what the thread's operation returned
  intact,       \* the thread's completed write is still the entry of its key
  old,          \* what the thread's insert found under its key
  written,      \* keys inserted since the store was created or last cleared
  began         \* now_in_millis() at the call of the thread's fetch

vars == <<store, lock, dangling, clock, pc, call, valid_until, at, invoked,
          result, intact, old, written, began>>

\* ------------------------------------------------------- pure functions
\* now_in_millis(): the wall clock truncated to milliseconds.
now_in_millis(c) == c \div TicksPerMilli

\* A duration rounded up to the next whole millisecond.
as_millis_rounded_up(d) == (d + TicksPerMilli - 1) \div TicksPerMilli

\* Duration::as_millis(): whole milliseconds, the rest dropped.
as_millis(d) == d \div TicksPerMilli

\* An expiry that stores the duration and not the time it ends at.
ValidUntilDurationOnly(expires_in, c) ==
  IF expires_in.some THEN as_millis(expires_in.dur) ELSE 0

\* An expiry that treats a missing duration as a duration of zero.
ValidUntilWithoutMarker(expires_in, c) ==
  now_in_millis(c) + as_millis(expires_in.dur)

\* An expiry that takes a duration of zero for no duration.
ValidUntilZeroIsForever(expires_in, c) ==
  IF expires_in.some /\ expires_in.dur > 0
    THEN now_in_millis(c) + as_millis(expires_in.dur)
    ELSE 0

\* write's valid_until: 0 is the never-expires marker.
ValidUntil(expires_in, c) ==
  IF expires_in.some THEN now_in_millis(c) + as_millis(expires_in.dur) ELSE 0

\* A read that still takes an entry as fresh at the millisecond it expires.
ReadNotStrict(m, k, now) ==
  IF k \in DOMAIN m
    THEN IF m[k].valid_until = 0 \/ m[k].valid_until >= now
           THEN Some(m[k].value)
           ELSE None
    ELSE None

\* A read with the comparison turned round: an entry counts as fresh once
\* the clock has passed its timestamp.
ReadInverted(m, k, now) ==
  IF k \in DOMAIN m
    THEN IF m[k].valid_until = 0 \/ m[k].valid_until < now
           THEN Some(m[k].value)
           ELSE None
    ELSE None

\* read's match on cache.get(&key), at millisecond clock reading now.
Read(m, k, now) ==
  IF k \in DOMAIN m
    THEN IF m[k].valid_until = 0 \/ m[k].valid_until > now
           THEN Some(m[k].value)
           ELSE None
    ELSE None

\* An insert that merges: a key that has an entry keeps its expiry.
InsertMerging(m, k, e) ==
  [x \in DOMAIN m \cup {k} |->
     IF x # k THEN m[x]
     ELSE IF k \in DOMAIN m THEN [e EXCEPT !.valid_until = m[k].valid_until]
     ELSE e]

\* An insert that keeps the entry a key already has.
InsertIfAbsent(m, k, e) ==
  [x \in DOMAIN m \cup {k} |-> IF x \in DOMAIN m THEN m[x] ELSE e]

\* An insert that lets the later timestamp win, not the later insert.
InsertLaterExpiry(m, k, e) ==
  [x \in DOMAIN m \cup {k} |->
     IF x # k THEN m[x]
     ELSE IF k \in DOMAIN m /\ m[k].valid_until > e.valid_until THEN m[k]
     ELSE e]

\* An insert that gives a key that has an entry the new expiry only: the
\* value of one write with the expiry of another.
InsertExpiryOnly(m, k, e) ==
  [x \in DOMAIN m \cup {k} |->
     IF x # k THEN m[x]
     ELSE IF k \in DOMAIN m THEN [e EXCEPT !.value = m[k].value]
     ELSE e]

\* HashMap::insert
Insert(m, k, e) == [x \in DOMAIN m \cup {k} |-> IF x = k THEN e ELSE m[x]]

\* HashMap::new()
EmptyStore == [x \in {} |-> [valid_until |-> 0, value |-> ""]]

Entry(vu, v) == [valid_until |-> vu, value |-> v]

\* ----------------------------------------------------------------- Init
\* The store is empty and unlocked and no thread is in an operation; the
\* program starts after the epoch, in the first millisecond past it.
Init ==
  /\ store = EmptyStore
  /\ lock = "unlocked"
  /\ dangling = {}
  /\ clock = TicksPerMilli
  /\ pc = [p \in Procs |-> "idle"]
  /\ call = [p \in Procs |-> NoCall]
  /\ valid_until = [p \in Procs |-> 0]
  /\ at = [p \in Procs |-> 0]
  /\ invoked = [p \in Procs |-> 0]
  /\ result = [p \in Procs |-> NoResult]
  /\ intact = [p \in Procs |-> FALSE]
  /\ old = [p \in Procs |-> ""]
  /\ written = {}
  /\ began = [p \in Procs |-> 0]

\* -------------------------------------------------------------- actions
\* Any change of the entry of key k (or of the whole store) ends the
\* "no later write and no clear" period of the completed writes it replaces.
Overwritten(k) ==
  [q \in Procs |-> IF call[q].key = k THEN FALSE ELSE intact[q]]

\* read(key) is called.
CallRead(p, k) ==
  /\ pc[p] = "idle"
  /\ pc' = [pc EXCEPT ![p] = "read_lock"]
  /\ call' = [call EXCEPT ![p] = [NoCall EXCEPT !.op = "read", !.key = k]]
  /\ UNCHANGED <<store, lock, dangling, clock, valid_until, at, invoked,
                 result, intact, old, written, began>>

\* write(key, value, expires_in) is called: valid_until is computed from the
\* clock before the lock is taken.
CallWrite(p, k, v, e) ==
  /\ pc[p] = "idle"
  /\ pc' = [pc EXCEPT ![p] = "write_lock"]
  /\ call' = [call EXCEPT ![p] =
                [op |-> "write", key |-> k, value |-> v, expires_in |-> e]]
  /\ valid_until' = [valid_until EXCEPT ![p] = ValidUntil(e, clock)]
  /\ at' = [at EXCEPT ![p] = clock]
  /\ UNCHANGED <<store, lock, dangling, clock, invoked, result, intact, old,
                 written, began>>

\* fetch(key, expires_in, f) is called: it starts with read(key).
CallFetch(p, k, e) ==
  /\ pc[p] = "idle"
  /\ pc' = [pc EXCEPT ![p] = "read_lock"]
  /\ call' = [call EXCEPT ![p] =
                [op |-> "fetch", key |-> k, value |-> "", expires_in |-> e]]
  /\ began' = [began EXCEPT ![p] = now_in_millis(clock)]
  /\ UNCHANGED <<store, lock, dangling, clock, valid_until, at, invoked,
                 result, intact, old, written>>

\* read: ZCACHE_STORE.lock().unwrap()
ReadLock(p) ==
  /\ pc[p] = "read_lock"
  /\ lock = "unlocked"
  /\ lock' = p
  /\ pc' = [pc EXCEPT ![p] = "read_get"]
  /\ UNCHANGED <<store, dangling, clock, call, valid_until, at, invoked,
                 result, intact, old, written, began>>

\* A fetch that ignores what read returned and always asks the producer.
AfterReadAlwaysProduces(p, r) ==
  IF call[p].op = "read"
    THEN /\ pc' = [pc EXCEPT ![p] = "done"]
         /\ result' = [result EXCEPT ![p] = r]
         /\ UNCHANGED invoked
    ELSE /\ pc' = [pc EXCEPT ![p] = "producer"]
         /\ invoked' = [invoked EXCEPT ![p] = @ + 1]
         /\ UNCHANGED result

\* What follows read's return value r: read returns it; fetch returns a hit
\* and invokes the producer on a miss.
AfterRead(p, r) ==
  IF call[p].op = "read"
    THEN /\ pc' = [pc EXCEPT ![p] = "done"]
         /\ result' = [result EXCEPT ![p] = r]
         /\ UNCHANGED invoked
    ELSE IF r.tag = "Some"
      THEN /\ pc' = [pc EXCEPT ![p] = "done"]
           /\ result' = [result EXCEPT ![p] = Ok(r.val)]
           /\ UNCHANGED invoked
      ELSE /\ pc' = [pc EXCEPT ![p] = "producer"]
           /\ invoked' = [invoked EXCEPT ![p] = @ + 1]
           /\ UNCHANGED result

\* A read that evicts the stale entry it finds.
ReadGetEvicts(p) ==
  /\ pc[p] = "read_get"
  /\ p \notin dangling
  /\ AfterRead(p, Read(store, call[p].key, now_in_millis(clock)))
  /\ store' = [k \in {x \in DOMAIN store :
                        x # call[p].key
                        \/ Read(store, x, now_in_millis(clock)).tag = "Some"}
                 |-> store[k]]
  /\ lock' = "unlocked"
  /\ UNCHANGED <<dangling, clock, call, valid_until, at, intact, old, written,
                 began>>

\* A read whose guard outlives a miss of fetch and is held while the
\* producer runs.
ReadGetKeepsGuard(p) ==
  /\ pc[p] = "read_get"
  /\ p \notin dangling
  /\ AfterRead(p, Read(store, call[p].key, now_in_millis(clock)))
  /\ lock' = IF /\ call[p].op = "fetch"
                /\ Read(store, call[p].key, now_in_millis(clock)) = None
               THEN p ELSE "unlocked"
  /\ UNCHANGED <<store, dangling, clock, call, valid_until, at, intact, old,
                 written, began>>

\* A lookup that, on a hit of fetch, gives the entry the expiry of the
\* fetch's expires_in.
ReadGetRefreshes(p) ==
  /\ pc[p] = "read_get"
  /\ p \notin dangling
  /\ AfterRead(p, Read(store, call[p].key, now_in_millis(clock)))
  /\ store' =
       IF /\ call[p].op = "fetch"
          /\ Read(store, call[p].key, now_in_millis(clock)).tag = "Some"
         THEN Insert(store, call[p].key,
                     Entry(ValidUntil(call[p].expires_in, clock),
                           store[call[p].key].value))
         ELSE store
  /\ lock' = "unlocked"
  /\ UNCHANGED <<dangling, clock, call, valid_until, at, intact, old, written,
                 began>>

\* read: cache.get(&key), the freshness test, and the guard's drop.
ReadGet(p) ==
  /\ pc[p] = "read_get"
  /\ p \notin dangling
  /\ AfterRead(p, Read(store, call[p].key, now_in_millis(clock)))
  /\ lock' = "unlocked"
  /\ UNCHANGED <<store, dangling, clock, call, valid_until, at, intact, old,
                 written, began>>

\* read through a guard of a store that clear() dropped meanwhile: a read of
\* freed memory, which may yield anything.
ReadGetDangling(p, r) ==
  /\ pc[p] = "read_get"
  /\ p \in dangling
  /\ AfterRead(p, r)
  /\ dangling' = dangling \ {p}
  /\ UNCHANGED <<store, lock, clock, call, valid_until, at, intact, old,
                 written, began>>

\* A fetch that computes the expiry from the clock at its call, before the
\* producer ran.
ProducerSomeExpiryFromCall(p, v) ==
  /\ pc[p] = "producer"
  /\ pc' = [pc EXCEPT ![p] = "write_lock"]
  /\ call' = [call EXCEPT ![p].value = v]
  /\ valid_until' = [valid_until EXCEPT ![p] =
                       IF call[p].expires_in.some
                         THEN began[p] + as_millis(call[p].expires_in.dur)
                         ELSE 0]
  /\ at' = [at EXCEPT ![p] = clock]
  /\ UNCHANGED <<store, lock, dangling, clock, invoked, result, intact, old,
                 written, began>>

\* fetch: f().await yields Some(value), and write(key, value, expires_in)
\* starts by computing valid_until.
ProducerSome(p, v) ==
  /\ pc[p] = "producer"
  /\ pc' = [pc EXCEPT ![p] = "write_lock"]
  /\ call' = [call EXCEPT ![p].value = v]
  /\ valid_until' = [valid_until EXCEPT ![p] =
                       ValidUntil(call[p].expires_in, clock)]
  /\ at' = [at EXCEPT ![p] = clock]
  /\ UNCHANGED <<store, lock, dangling, clock, invoked, result, intact, old,
                 written, began>>

\* A fetch that caches the producer's failure.
ProducerNoneCached(p) ==
  /\ pc[p] = "producer"
  /\ pc' = [pc EXCEPT ![p] = "done"]
  /\ result' = [result EXCEPT ![p] = FetchError(call[p].key)]
  /\ store' = Insert(store, call[p].key, Entry(0, ""))
  /\ UNCHANGED <<lock, dangling, clock, call, valid_until, at, invoked,
                 intact, old, written, began>>

\* fetch: f().await yields None.
ProducerNone(p) ==
  /\ pc[p] = "producer"
  /\ pc' = [pc EXCEPT ![p] = "done"]
  /\ result' = [result EXCEPT ![p] = FetchError(call[p].key)]
  /\ UNCHANGED <<store, lock, dangling, clock, call, valid_until, at, invoked,
                 intact, old, written, began>>

\* write: ZCACHE_STORE.lock().unwrap()
WriteLock(p) ==
  /\ pc[p] = "write_lock"
  /\ lock = "unlocked"
  /\ lock' = p
  /\ pc' = [pc EXCEPT ![p] = "write_insert"]
  /\ UNCHANGED <<store, dangling, clock, call, valid_until, at, invoked,
                 result, intact, old, written, began>>

\* What write returns to its caller.
AfterWrite(p) ==
  /\ pc' = [pc EXCEPT ![p] = "done"]
  /\ result' = [result EXCEPT ![p] =
                  IF call[p].op = "fetch" THEN Ok(call[p].value) ELSE Unit]

\* What HashMap::insert finds under key k at millisecond clock reading now.
Found(m, k, now) ==
  IF k \notin DOMAIN m THEN "absent"
  ELSE IF Read(m, k, now).tag = "Some" THEN "fresh" ELSE "stale"

\* An insert that looks again and keeps a fresh entry it finds.
WriteInsertUnlessFresh(p) ==
  /\ pc[p] = "write_insert"
  /\ p \notin dangling
  /\ LET found == Read(store, call[p].key, now_in_millis(clock))
     IN  IF call[p].op = "fetch" /\ found.tag = "Some"
           THEN /\ UNCHANGED <<store, intact, old>>
                /\ pc' = [pc EXCEPT ![p] = "done"]
                /\ result' = [result EXCEPT ![p] = Ok(found.val)]
           ELSE /\ store' = Insert(store, call[p].key,
                                   Entry(valid_until[p], call[p].value))
                /\ intact' = [Overwritten(call[p].key) EXCEPT ![p] = TRUE]
                /\ old' = [old EXCEPT ![p] =
                             Found(store, call[p].key, now_in_millis(clock))]
                /\ AfterWrite(p)
  /\ lock' = "unlocked"
  /\ written' = written \cup {call[p].key}
  /\ UNCHANGED <<dangling, clock, call, valid_until, at, invoked, began>>

\* An insert whose guard is not dropped when write returns.
WriteInsertKeepsGuard(p) ==
  /\ pc[p] = "write_insert"
  /\ p \notin dangling
  /\ store' = Insert(store, call[p].key,
                     Entry(valid_until[p], call[p].value))
  /\ intact' = [Overwritten(call[p].key) EXCEPT ![p] = TRUE]
  /\ old' = [old EXCEPT ![p] =
               Found(store, call[p].key, now_in_millis(clock))]
  /\ AfterWrite(p)
  /\ written' = written \cup {call[p].key}
  /\ UNCHANGED <<lock, dangling, clock, call, valid_until, at, invoked, began>>

\* write: .insert(key, (valid_until, Box::new(value))), and the guard's drop.
WriteInsert(p) ==
  /\ pc[p] = "write_insert"
  /\ p \notin dangling
  /\ store' = Insert(store, call[p].key,
                     Entry(valid_until[p], call[p].value))
  /\ intact' = [Overwritten(call[p].key) EXCEPT ![p] = TRUE]
  /\ old' = [old EXCEPT ![p] =
               Found(store, call[p].key, now_in_millis(clock))]
  /\ lock' = "unlocked"
  /\ AfterWrite(p)
  /\ written' = written \cup {call[p].key}
  /\ UNCHANGED <<dangling, clock, call, valid_until, at, invoked, began>>

\* insert through a guard of a store that clear() dropped meanwhile: the
\* entry goes to the dropped map and is lost, or it lands in the map that
\* the static now names.
WriteInsertDangling(p, lands) ==
  /\ pc[p] = "write_insert"
  /\ p \in dangling
  /\ IF lands
       THEN /\ store' = Insert(store, call[p].key,
                               Entry(valid_until[p], call[p].value))
            /\ intact' = [Overwritten(call[p].key) EXCEPT ![p] = TRUE]
       ELSE UNCHANGED <<store, intact>>
  /\ dangling' = dangling \ {p}
  /\ AfterWrite(p)
  /\ written' = written \cup {call[p].key}
  /\ UNCHANGED <<lock, clock, call, valid_until, at, invoked, old, began>>

\* A clear that keeps the entries of the store.
ClearKeepsEntries(p) ==
  /\ pc[p] = "idle"
  /\ dangling' = IF lock = "unlocked" THEN dangling ELSE dangling \cup {lock}
  /\ lock' = "unlocked"
  /\ written' = {}
  /\ UNCHANGED <<store, clock, pc, call, valid_until, at, invoked, result,
                 intact, old, began>>

\* clear(): the static is assigned a new, empty store; no lock is taken. The
\* old store is dropped with whatever guard is out on it.
Clear(p) ==
  /\ pc[p] = "idle"
  /\ store' = EmptyStore
  /\ dangling' = IF lock = "unlocked" THEN dangling ELSE dangling \cup {lock}
  /\ lock' = "unlocked"
  /\ intact' = [q \in Procs |-> FALSE]
  /\ written' = {}
  /\ UNCHANGED <<clock, pc, call, valid_until, at, invoked, result, old, began>>

\* The operation's caller takes the result; the thread is free again.
Return(p) ==
  /\ pc[p] = "done"
  /\ pc' = [pc EXCEPT ![p] = "idle"]
  /\ call' = [call EXCEPT ![p] = NoCall]
  /\ valid_until' = [valid_until EXCEPT ![p] = 0]
  /\ at' = [at EXCEPT ![p] = 0]
  /\ invoked' = [invoked EXCEPT ![p] = 0]
  /\ result' = [result EXCEPT ![p] = NoResult]
  /\ intact' = [intact EXCEPT ![p] = FALSE]
  /\ old' = [old EXCEPT ![p] = ""]
  /\ began' = [began EXCEPT ![p] = 0]
  /\ UNCHANGED <<store, lock, dangling, clock, written>>

\* The wall clock advances.
Tick ==
  /\ clock < MaxClock
  /\ clock' = clock + 1
  /\ UNCHANGED <<store, lock, dangling, pc, call, valid_until, at, invoked,
                 result, intact, old, written, began>>

\* ------------------------------------------------------- specifications
\* Two threads, every operation, on one shared key.
Next ==
  \/ \E p \in Procs, k \in SharedKeys : CallRead(p, k)
  \/ \E p \in Procs, k \in SharedKeys, v \in Values, e \in Expiries :
       CallWrite(p, k, v, e)
  \/ \E p \in Procs, k \in SharedKeys, e \in Expiries : CallFetch(p, k, e)
  \/ \E p \in Procs : ReadLock(p)
  \/ \E p \in Procs : ReadGet(p)
  \/ \E p \in Procs, r \in {None} \cup {Some(v) : v \in Values} :
       ReadGetDangling(p, r)
  \/ \E p \in Procs, v \in Values : ProducerSome(p, v)
  \/ \E p \in Procs : ProducerNone(p)
  \/ \E p \in Procs : WriteLock(p)
  \/ \E p \in Procs : WriteInsert(p)
  \/ \E p \in Procs, lands \in BOOLEAN : WriteInsertDangling(p, lands)
  \/ \E p \in Procs : Clear(p)
  \/ \E p \in Procs : Return(p)
  \/ Tick

Spec == Init /\ [][Next]_vars

\* One thread, every operation, on every key: no operation overlaps another,
\* so no guard is ever left dangling.
NextKeys ==
  \/ \E k \in Keys : CallRead("t1", k)
  \/ \E k \in Keys, v \in Values, e \in Expiries : CallWrite("t1", k, v, e)
  \/ \E k \in Keys, e \in Expiries : CallFetch("t1", k, e)
  \/ ReadLock("t1")
  \/ ReadGet("t1")
  \/ \E v \in Values : ProducerSome("t1", v)
  \/ ProducerNone("t1")
  \/ WriteLock("t1")
  \/ WriteInsert("t1")
  \/ Clear("t1")
  \/ Return("t1")
  \/ Tick

SpecKeys == Init /\ [][NextKeys]_vars

\* The store is empty and the wall clock is at the epoch.
InitEpoch ==
  /\ store = EmptyStore
  /\ lock = "unlocked"
  /\ dangling = {}
  /\ clock = 0
  /\ pc = [p \in Procs |-> "idle"]
  /\ call = [p \in Procs |-> NoCall]
  /\ valid_until = [p \in Procs |-> 0]
  /\ at = [p \in Procs |-> 0]
  /\ invoked = [p \in Procs |-> 0]
  /\ result = [p \in Procs |-> NoResult]
  /\ intact = [p \in Procs |-> FALSE]
  /\ old = [p \in Procs |-> ""]
  /\ written = {}
  /\ began = [p \in Procs |-> 0]

\* Two threads that read and write one shared key, from the epoch on.
NextEpoch ==
  \/ \E p \in Procs, k \in SharedKeys : CallRead(p, k)
  \/ \E p \in Procs, k \in SharedKeys, v \in Values, e \in Expiries :
       CallWrite(p, k, v, e)
  \/ \E p \in Procs : ReadLock(p)
  \/ \E p \in Procs : ReadGet(p)
  \/ \E p \in Procs : WriteLock(p)
  \/ \E p \in Procs : WriteInsert(p)
  \/ \E p \in Procs : Return(p)
  \/ Tick

SpecEpoch == InitEpoch /\ [][NextEpoch]_vars

\* The value and the durations of the fair specification.
FairValues == {"Int(1)"}
FairExpiries == {NoDuration, SomeDuration(0)}

\* The steps of thread p that wait for nothing: a lookup or an insert under
\* the guard it holds, and the return of its producer.
Proceeds(p) ==
  \/ ReadGet(p)
  \/ \E r \in {None} \cup {Some(v) : v \in Values} : ReadGetDangling(p, r)
  \/ \E v \in Values : ProducerSome(p, v)
  \/ ProducerNone(p)
  \/ WriteInsert(p)
  \/ \E lands \in BOOLEAN : WriteInsertDangling(p, lands)

\* Fair scheduling: a thread that can take a step that waits for nothing
\* takes one, its producer returns, and a thread that waits for the lock
\* gets it if the lock is free again and again.
Fairness ==
  \A p \in Procs :
    /\ WF_vars(Proceeds(p))
    /\ SF_vars(ReadLock(p) \/ WriteLock(p))

\* Two threads, every operation, on one shared key, with one value and with
\* the durations that leave an entry fresh for ever or stale at once.
NextFair ==
  \/ \E p \in Procs, k \in SharedKeys : CallRead(p, k)
  \/ \E p \in Procs, k \in SharedKeys, v \in FairValues, e \in FairExpiries :
       CallWrite(p, k, v, e)
  \/ \E p \in Procs, k \in SharedKeys, e \in FairExpiries : CallFetch(p, k, e)
  \/ \E p \in Procs : ReadLock(p)
  \/ \E p \in Procs : ReadGet(p)
  \/ \E p \in Procs, r \in {None} \cup {Some(v) : v \in FairValues} :
       ReadGetDangling(p, r)
  \/ \E p \in Procs, v \in FairValues : ProducerSome(p, v)
  \/ \E p \in Procs : ProducerNone(p)
  \/ \E p \in Procs : WriteLock(p)
  \/ \E p \in Procs : WriteInsert(p)
  \/ \E p \in Procs, lands \in BOOLEAN : WriteInsertDangling(p, lands)
  \/ \E p \in Procs : Clear(p)
  \/ \E p \in Procs : Return(p)
  \/ Tick

SpecFair == Init /\ [][NextFair]_vars /\ Fairness

\* ---------------------------------------------------------------- claims
\* Thread p leaves position at in this step.
Leaves(p, at_pc) == pc[p] = at_pc /\ pc'[p] # at_pc

\* Thread p is about to look its key up under a guard of the current store.
Looking(p) == pc[p] = "read_get" /\ p \notin dangling

\* Thread p is about to insert under a guard of the current store.
Inserting(p) == pc[p] = "write_insert" /\ p \notin dangling

\* The entry of key k is present and fresh: never-expires, or its timestamp
\* is strictly later than the millisecond clock.
PresentAndFresh(k) ==
  /\ k \in DOMAIN store
  /\ \/ store[k].valid_until = 0
     \/ store[k].valid_until > clock \div TicksPerMilli

\* C1: a fetch whose lookup finds its key present and fresh returns Ok with
\* exactly the stored value, does not invoke the producer and leaves the
\* store as it is.
C1_FetchHit ==
  [][\A p \in Procs :
       ( /\ call[p].op = "fetch"
         /\ Looking(p)
         /\ Leaves(p, "read_get")
         /\ PresentAndFresh(call[p].key) )
       => /\ pc'[p] = "done"
          /\ result'[p] = Ok(store[call[p].key].value)
          /\ invoked'[p] = 0
          /\ store' = store]_vars

\* A fetch has returned a hit: the stored value, the producer never invoked.
C1_Witness ==
  \E p \in Procs :
    /\ pc[p] = "done"
    /\ call[p].op = "fetch"
    /\ invoked[p] = 0
    /\ dangling = {}
    /\ call[p].key \in DOMAIN store
    /\ result[p] = Ok(store[call[p].key].value)

\* Thread p's completed write (direct, or the write of its fetch) is still
\* the entry of its key: no later write to the key, no clear.
Stands(p, op) == pc[p] = "done" /\ call[p].op = op /\ intact[p]

\* Thread q, which called read, looks up the key of thread p's write.
ReadsKeyOf(q, p) ==
  /\ q # p
  /\ call[q].op = "read"
  /\ Looking(q)
  /\ Leaves(q, "read_get")
  /\ call[q].key = call[p].key

\* The duration of p's write has not elapsed on the wall clock.
NotElapsed(p) ==
  \/ ~call[p].expires_in.some
  \/ clock < at[p] + call[p].expires_in.dur

\* The expiry of p's write in whole milliseconds: the millisecond clock at
\* the write plus the duration truncated to milliseconds.
ExpiryMillis(p) ==
  (at[p] \div TicksPerMilli) + (call[p].expires_in.dur \div TicksPerMilli)

\* The millisecond clock has not reached the expiry of p's write.
NotExpired(p) ==
  \/ ~call[p].expires_in.some
  \/ clock \div TicksPerMilli < ExpiryMillis(p)

\* The write step of a fetch that missed: the producer ran once, the fetch
\* returns Ok(v) and the store holds v under the key.
FetchMissWrites ==
  \A p \in Procs :
    (call[p].op = "fetch" /\ Inserting(p) /\ Leaves(p, "write_insert"))
    => /\ pc'[p] = "done"
       /\ invoked'[p] = 1
       /\ result'[p] = Ok(call[p].value)
       /\ call[p].key \in DOMAIN store'
       /\ store'[call[p].key].value = call[p].value

\* C2 as stated: a later read, before the duration has elapsed on the wall
\* clock and with no write or clear in between, returns the fetched value.
C2_ReadBeforeTtlElapses ==
  [][/\ FetchMissWrites
     /\ \A p, q \in Procs :
          (Stands(p, "fetch") /\ ReadsKeyOf(q, p) /\ NotElapsed(p))
          => result'[q] = Some(call[p].value)]_vars

\* C2, amended: on a miss whose producer yields v the producer is invoked
\* exactly once, fetch returns Ok(v) and the store holds v under the key; a
\* later read, with no write or clear in between, returns v while the
\* millisecond clock reads less than its reading at the write plus the
\* duration truncated to whole milliseconds (always, without a duration).
C2_FetchMissThenRead ==
  /\ [](\A p \in Procs : invoked[p] <= 1)
  /\ [][/\ FetchMissWrites
        /\ \A p, q \in Procs :
             (Stands(p, "fetch") /\ ReadsKeyOf(q, p) /\ NotExpired(p))
             => result'[q] = Some(call[p].value)]_vars

\* A fetch with a duration missed, wrote and returned; a read of the other
\* thread then returned the fetched value.
C2_Witness ==
  \E p, q \in Procs :
    /\ Stands(p, "fetch")
    /\ invoked[p] = 1
    /\ call[p].expires_in.some
    /\ result[p] = Ok(call[p].value)
    /\ pc[q] = "done"
    /\ call[q].op = "read"
    /\ call[q].key = call[p].key
    /\ result[q] = Some(call[p].value)
    /\ clock > at[p]

\* C4 as stated: after write(key, v, ttl), ttl > 0, at wall-clock time t,
\* with no later write to key and no clear, read returns v at every clock
\* time before t + ttl and not found at every clock time after t + ttl.
C4_ReadByWallClock ==
  [][\A p, q \in Procs :
       ( /\ Stands(p, "write")
         /\ ReadsKeyOf(q, p)
         /\ call[p].expires_in.some
         /\ call[p].expires_in.dur > 0 )
       => /\ clock < at[p] + call[p].expires_in.dur
               => result'[q] = Some(call[p].value)
          /\ clock > at[p] + call[p].expires_in.dur
               => result'[q] = None]_vars

\* C4, amended: with t the millisecond clock reading at the write and d the
\* duration truncated to whole milliseconds, read returns v while the
\* millisecond clock reads less than t + d and not found once it reads
\* t + d or more.
C4_ReadByMillis ==
  [][\A p, q \in Procs :
       ( /\ Stands(p, "write")
         /\ ReadsKeyOf(q, p)
         /\ call[p].expires_in.some
         /\ call[p].expires_in.dur > 0 )
       => result'[q] =
            IF clock \div TicksPerMilli < ExpiryMillis(p)
              THEN Some(call[p].value)
              ELSE None]_vars

\* A write with a positive duration stands, and a read after its expiry
\* returned not found.
C4_Witness ==
  \E p, q \in Procs :
    /\ Stands(p, "write")
    /\ call[p].expires_in.some
    /\ call[p].expires_in.dur > 0
    /\ ExpiryMillis(p) > at[p] \div TicksPerMilli
    /\ pc[q] = "done"
    /\ call[q].op = "read"
    /\ call[q].key = call[p].key
    /\ result[q] = None
    /\ clock \div TicksPerMilli >= ExpiryMillis(p)

\* C5: after write(key, v, None), with no later write to key and no clear,
\* every read of key returns v, however far the clock has advanced.
C5_NeverExpires ==
  [][\A p, q \in Procs :
       ( /\ Stands(p, "write")
         /\ ReadsKeyOf(q, p)
         /\ ~call[p].expires_in.some )
       => result'[q] = Some(call[p].value)]_vars

\* A write without a duration stands, and a read at the end of the clock's
\* range, later than the write, returned its value.
C5_Witness ==
  \E p, q \in Procs :
    /\ Stands(p, "write")
    /\ ~call[p].expires_in.some
    /\ pc[q] = "done"
    /\ call[q].op = "read"
    /\ call[q].key = call[p].key
    /\ result[q] = Some(call[p].value)
    /\ at[p] < clock
    /\ clock = MaxClock

\* C3: a fetch that misses and whose producer yields nothing returns
\* FetchError with its key and writes nothing: no step of it changes the
\* store, and afterwards a read of the key would find nothing, so that the
\* next fetch of the key asks its producer again.
C3_FetchFailure ==
  /\ [](\A p \in Procs :
          (pc[p] = "done" /\ result[p].tag = "FetchError")
          => /\ call[p].op = "fetch"
             /\ result[p] = FetchError(call[p].key)
             /\ invoked[p] = 1
             /\ Read(store, call[p].key, clock \div TicksPerMilli) = None)
  /\ [][\A p \in Procs :
          ( /\ call[p].op = "fetch"
            /\ pc[p] \in {"read_lock", "read_get", "producer"}
            /\ pc'[p] \notin {pc[p], "write_lock"} )
          => store' = store]_vars

\* A fetch failed on a key that holds a stale entry, which is still there,
\* beside the entry of another key.
C3_Witness ==
  /\ pc["t1"] = "done"
  /\ result["t1"] = FetchError("key1")
  /\ DOMAIN store = {"key1", "key2"}
  /\ store["key2"].valid_until = 0

\* C6: no step of a read changes the store, whatever the read returns; a
\* stale entry reported as not found stays where it is.
C6_ReadKeepsStore ==
  [][\A p \in Procs :
       ((call[p].op = "read" \/ call'[p].op = "read") /\ pc'[p] # pc[p])
       => store' = store]_vars

\* A read returned not found for a key whose stale entry is still in the
\* store.
C6_Witness ==
  /\ pc["t1"] = "done"
  /\ call["t1"].op = "read"
  /\ result["t1"] = None
  /\ call["t1"].key \in DOMAIN store
  /\ DOMAIN store = Keys

\* C7: the insert of a write puts (expiry, v) under the key, the expiry
\* being 0 without a duration and otherwise the millisecond clock at the
\* write plus the duration in milliseconds, whatever entry the key had; the
\* other keys keep their entries.
C7_WriteReplaces ==
  [][\A p \in Procs :
       (Inserting(p) /\ Leaves(p, "write_insert"))
       => /\ DOMAIN store' = DOMAIN store \cup {call[p].key}
          /\ store'[call[p].key] =
               Entry(IF call[p].expires_in.some THEN ExpiryMillis(p) ELSE 0,
                     call[p].value)
          /\ \A k \in DOMAIN store \ {call[p].key} : store'[k] = store[k]]_vars

\* A write has replaced a stale entry of its key, beside the entry of
\* another key.
C7_Witness ==
  /\ pc["t1"] = "done"
  /\ call["t1"].op = "write"
  /\ old["t1"] = "stale"
  /\ call["t1"].expires_in.some
  /\ DOMAIN store = Keys

\* Thread q inserts a repetition of the write of thread p that still stands:
\* the same key, value and duration.
Repeats(q, p) ==
  /\ q # p
  /\ Stands(p, "write")
  /\ call[q].op = "write"
  /\ Inserting(q)
  /\ Leaves(q, "write_insert")
  /\ call[q].key = call[p].key
  /\ call[q].value = call[p].value
  /\ call[q].expires_in = call[p].expires_in

\* The store m answers every read, of every key at every clock reading from
\* now on, as the store n does.
SameReads(m, n) ==
  \A k \in Keys, c \in clock..(MaxClock + MaxDuration + TicksPerMilli) :
    Read(m, k, c \div TicksPerMilli) = Read(n, k, c \div TicksPerMilli)

\* C8 as stated: a repetition of write(key, v, ttl) leaves the store as the
\* single write left it: every later read of every key returns what it
\* would have returned without the repetition.
C8_RepeatChangesNothing ==
  [][\A p, q \in Procs : Repeats(q, p) => SameReads(store', store)]_vars

\* C8, amended: a repetition of write(key, v, ttl) leaves the store as a
\* single write made at the time of the repetition would: the value and the
\* other keys are as they were and the expiry is the one of the last write.
\* Every later read returns what it would have returned without the
\* repetition when there is no duration or when both writes read the same
\* millisecond clock.
C8_RepeatIsLastWrite ==
  [][\A p, q \in Procs :
       Repeats(q, p)
       => /\ store' = [store EXCEPT ![call[q].key] =
                         Entry(IF call[q].expires_in.some
                                 THEN ExpiryMillis(q) ELSE 0,
                               call[p].value)]
          /\ ( \/ ~call[q].expires_in.some
               \/ at[q] \div TicksPerMilli = at[p] \div TicksPerMilli )
             => store' = store /\ SameReads(store', store)]_vars

\* Two identical writes are done, the second in a later millisecond than
\* the first.
C8_Witness ==
  \E p, q \in Procs :
    /\ p # q
    /\ pc[p] = "done" /\ call[p].op = "write"
    /\ Stands(q, "write")
    /\ call[q] = call[p]
    /\ call[q].expires_in.some
    /\ at[q] \div TicksPerMilli > at[p] \div TicksPerMilli
    /\ old[q] = "fresh"

\* C9: the lock is held only across one lookup or one insert, and never by a
\* fetch whose producer is running; whoever waits for the lock while a
\* producer runs can take it as soon as it is free.
C9_NoLockAcrossProducer ==
  \A p \in Procs :
    /\ pc[p] = "producer" => (lock # p /\ p \notin dangling)
    /\ (lock = p \/ p \in dangling) => pc[p] \in {"read_get", "write_insert"}
    /\ \A q \in Procs :
         ( /\ pc[p] = "producer"
           /\ pc[q] \in {"read_lock", "write_lock"}
           /\ lock = "unlocked" )
         => ENABLED (ReadLock(q) \/ WriteLock(q))

\* While the producer of one fetch runs, the other thread holds the lock.
C9_Witness ==
  \E p, q \in Procs :
    /\ pc[p] = "producer"
    /\ lock = q
    /\ pc[q] = "write_insert"

\* C10: fetch does not deduplicate: the insert of a fetch that missed is
\* made even when another fetch of the same key, which missed too and ran
\* its own producer, has filled the key meanwhile; the later insert replaces
\* the earlier one, and each fetch returns the value of its own producer.
C10_NoSingleFlight ==
  [][\A p, q \in Procs :
       ( /\ q # p
         /\ Stands(q, "fetch")
         /\ invoked[q] = 1
         /\ call[p].op = "fetch"
         /\ call[p].key = call[q].key
         /\ Inserting(p)
         /\ Leaves(p, "write_insert") )
       => /\ invoked[p] = 1
          /\ store'[call[p].key] = Entry(valid_until[p], call[p].value)
          /\ result'[p] = Ok(call[p].value)
          /\ result'[q] = Ok(call[q].value)]_vars

\* Two fetches of one key have both missed, both run their producers, which
\* yielded different values, and both written: the later insert found the
\* fresh entry of the earlier one and replaced it.
C10_Witness ==
  \E p, q \in Procs :
    /\ p # q
    /\ pc[p] = "done" /\ call[p].op = "fetch"
    /\ pc[q] = "done" /\ call[q].op = "fetch"
    /\ call[p].key = call[q].key
    /\ invoked[p] = 1 /\ invoked[q] = 1
    /\ result[p].tag = "Ok" /\ result[q].tag = "Ok"
    /\ result[p].val # result[q].val
    /\ intact[q] /\ ~intact[p]
    /\ old[p] = "absent" /\ old[q] = "fresh"
    /\ store[call[q].key].value = result[q].val

\* C11: clear() is atomic with respect to the other accesses of the store:
\* it never takes effect while a guard is out on the store, so no lookup or
\* insert is left with a guard of a dropped store, and the insert of every
\* write puts its entry into the store that later reads look at.
C11_ClearIsAtomic ==
  [][/\ dangling' \subseteq dangling
     /\ \A p \in Procs :
          Leaves(p, "write_insert")
          => /\ call[p].key \in DOMAIN store'
             /\ store'[call[p].key] =
                  Entry(valid_until[p], call[p].value)]_vars

\* C12: the store holds entries only for keys that were written (directly or
\* by a successful fetch) since it was created or last cleared, and read of
\* any other key returns not found.
C12_UnwrittenNotFound ==
  /\ [](DOMAIN store \subseteq written)
  /\ [][\A p \in Procs :
          ( /\ call[p].op = "read"
            /\ Looking(p)
            /\ Leaves(p, "read_get")
            /\ call[p].key \notin written )
          => result'[p] = None]_vars

\* A read of a key that was not written has returned not found, while another
\* key has an entry.
C12_Witness ==
  \E p \in Procs :
    /\ pc[p] = "done"
    /\ call[p].op = "read"
    /\ call[p].key \notin written
    /\ written # {}
    /\ DOMAIN store # {}
    /\ result[p] = None

\* C13: for an entry with an absolute expiry timestamp, read returns the
\* stored value if and only if the timestamp is strictly greater than the
\* millisecond clock at the moment of the read; a read at exactly the
\* timestamp returns not found.
C13_StrictlyGreater ==
  [][\A p \in Procs :
       ( /\ call[p].op = "read"
         /\ Looking(p)
         /\ Leaves(p, "read_get")
         /\ call[p].key \in DOMAIN store
         /\ store[call[p].key].valid_until # 0 )
       => result'[p] =
            IF store[call[p].key].valid_until > clock \div TicksPerMilli
              THEN Some(store[call[p].key].value)
              ELSE None]_vars

\* A read has returned not found for an entry whose timestamp is the
\* millisecond the clock reads.
C13_Witness ==
  \E p \in Procs :
    /\ pc[p] = "done"
    /\ call[p].op = "read"
    /\ result[p] = None
    /\ dangling = {}
    /\ call[p].key \in DOMAIN store
    /\ store[call[p].key].valid_until # 0
    /\ store[call[p].key].valid_until = clock \div TicksPerMilli
    /\ \A q \in Procs \ {p} : pc[q] = "idle"

\* C14: of the completed writes to one key (direct writes and the writes of
\* fetches that missed) with no clear since, exactly the one whose insert
\* came last in lock order has its value and its expiry stored under the
\* key, in whatever order the writes were called and computed their expiry.
C14_LastWriteWins ==
  \A p \in Procs :
    (pc[p] = "done" /\ intact[p])
    => /\ call[p].key \in DOMAIN store
       /\ store[call[p].key] = Entry(valid_until[p], call[p].value)
       /\ \A q \in Procs \ {p} :
            (pc[q] = "done" /\ call[q].key = call[p].key) => ~intact[q]

\* Two writes of different values to one key are done; the one that was
\* called first, and computed the earlier expiry, inserted last.
C14_Witness ==
  \E p, q \in Procs :
    /\ p # q
    /\ pc[p] = "done" /\ call[p].op \in {"write", "fetch"}
    /\ pc[q] = "done" /\ call[q].op \in {"write", "fetch"}
    /\ result[p] \in {Unit, Ok(call[p].value)}
    /\ result[q] = Unit
    /\ call[p].key = call[q].key
    /\ call[p].value # call[q].value
    /\ intact[q] /\ ~intact[p]
    /\ old[q] = "fresh"
    /\ at[q] < at[p]
    /\ valid_until[q] # 0 /\ valid_until[q] < valid_until[p]
    /\ store[call[q].key] = Entry(valid_until[q], call[q].value)

\* C15: whenever the entry of a key changes or appears, it becomes the
\* (value, expiry) pair of one single write, the one that is inserting; and
\* every value that a lookup returns, to read or to fetch, is the value of
\* the entry under its key.
C15_NoTornEntries ==
  [][/\ \A k \in DOMAIN store' :
          (k \notin DOMAIN store \/ store'[k] # store[k])
          => \E p \in Procs :
               /\ Leaves(p, "write_insert")
               /\ call[p].key = k
               /\ store'[k] = Entry(valid_until[p], call[p].value)
     /\ \A p \in Procs :
          ( /\ Looking(p)
            /\ Leaves(p, "read_get")
            /\ result'[p].tag \in {"Some", "Ok"} )
          => /\ call[p].key \in DOMAIN store
             /\ result'[p].val = store[call[p].key].value]_vars

\* A write has replaced the entry of another write of its key, with another
\* value and another expiry, and a read returned the value of the pair that
\* is stored.
C15_Witness ==
  \E p, q \in Procs :
    /\ Stands(p, "write")
    /\ old[p] # "absent"
    /\ valid_until[p] # 0
    /\ store[call[p].key] = Entry(valid_until[p], call[p].value)
    /\ pc[q] = "done"
    /\ call[q].op = "read"
    /\ call[q].key = call[p].key
    /\ result[q] = Some(call[p].value)

\* C16: a fetch that hits is a pure read: from its call to its return no
\* step of it changes the store, so the entry keeps the expiry it was
\* written with, whatever expires_in the fetch was called with.
C16_HitIsPureRead ==
  [][\A p \in Procs :
       ( /\ call'[p].op = "fetch"
         /\ pc'[p] # pc[p]
         /\ pc'[p] \in {"read_lock", "read_get", "done"}
         /\ invoked'[p] = 0 )
       => /\ store' = store
          /\ pc'[p] = "done"
             => \A k \in DOMAIN store :
                  store'[k].valid_until = store[k].valid_until]_vars

\* A fetch without a duration has hit an entry that a write with a duration
\* put: the entry still has the expiry of the write, not the never-expires
\* marker.
C16_Witness ==
  \E p, q \in Procs :
    /\ Stands(q, "write")
    /\ call[q].expires_in.some
    /\ pc[p] = "done"
    /\ call[p].op = "fetch"
    /\ call[p].key = call[q].key
    /\ call[p].expires_in = NoDuration
    /\ invoked[p] = 0
    /\ result[p] = Ok(call[q].value)
    /\ store[call[p].key] = Entry(valid_until[q], call[q].value)
    /\ valid_until[q] # 0

\* C17: the clock of the model never goes backwards, and with it a key that
\* read reports as not found is reported as not found by every read until a
\* write (direct or of a fetch) inserts under that key: no step but such an
\* insert takes a key from not found to found.
C17_StaleUntilRewritten ==
  [][/\ clock' >= clock
     /\ \A k \in Keys :
          ( /\ Read(store, k, clock \div TicksPerMilli) = None
            /\ Read(store', k, clock' \div TicksPerMilli) # None )
          => \E p \in Procs :
               Leaves(p, "write_insert") /\ call[p].key = k
     /\ \A p \in Procs :
          (call[p].op = "read" /\ Looking(p) /\ Leaves(p, "read_get"))
          => result'[p] = Read(store, call[p].key, clock \div TicksPerMilli)
    ]_vars

\* Two reads of a key have returned not found; its entry, stale, is still in
\* the store and the clock has run to the end of its range.
C17_Witness ==
  \E p, q \in Procs :
    /\ p # q
    /\ pc[p] = "done" /\ call[p].op = "read" /\ result[p] = None
    /\ pc[q] = "done" /\ call[q].op = "read" /\ result[q] = None
    /\ call[p].key = call[q].key
    /\ call[p].key \in DOMAIN store
    /\ store[call[p].key].valid_until # 0
    /\ store[call[p].key].valid_until < clock \div TicksPerMilli
    /\ clock = MaxClock

\* C18: a write with a duration, a duration of zero included, made while
\* the millisecond clock reads later than the epoch stores an expiry that is
\* not the never-expires marker 0, and from the wall-clock time of the write
\* plus the duration on, every read reports the entry as not found.
C18_DurationNeverForever ==
  [][/\ \A p \in Procs :
          ( /\ Inserting(p)
            /\ Leaves(p, "write_insert")
            /\ call[p].expires_in.some
            /\ at[p] \div TicksPerMilli > 0 )
          => /\ store'[call[p].key].valid_until # 0
             /\ \A c \in (at[p] + call[p].expires_in.dur) ..
                           (MaxClock + MaxDuration + TicksPerMilli) :
                  Read(store', call[p].key, c \div TicksPerMilli) = None
     /\ \A p, q \in Procs :
          ( /\ Stands(p, "write")
            /\ ReadsKeyOf(q, p)
            /\ call[p].expires_in.some
            /\ at[p] \div TicksPerMilli > 0
            /\ clock >= at[p] + call[p].expires_in.dur )
          => result'[q] = None]_vars

\* A write with a duration of zero, made later than the epoch, stands with
\* a non-zero expiry, and a read in the tick of the write returned not
\* found.
C18_Witness ==
  \E p, q \in Procs :
    /\ Stands(p, "write")
    /\ call[p].expires_in = SomeDuration(0)
    /\ at[p] \div TicksPerMilli > 0
    /\ store[call[p].key] = Entry(valid_until[p], call[p].value)
    /\ valid_until[p] # 0
    /\ pc[q] = "done"
    /\ call[q].op = "read"
    /\ call[q].key = call[p].key
    /\ result[q] = None
    /\ clock = at[p]

\* C19: the write of a fetch that missed computes the expiry when the
\* producer has returned: with a duration it is the millisecond clock at
\* that moment plus the duration in milliseconds, whenever the fetch was
\* called, and that is the expiry its insert stores.
C19_ExpiryFromWriteTime ==
  [][\A p \in Procs :
       /\ (Leaves(p, "producer") /\ pc'[p] = "write_lock")
          => valid_until'[p] =
               IF call[p].expires_in.some
                 THEN (clock \div TicksPerMilli)
                      + (call[p].expires_in.dur \div TicksPerMilli)
                 ELSE 0
       /\ (call[p].op = "fetch" /\ Inserting(p) /\ Leaves(p, "write_insert"))
          => /\ valid_until'[p] = valid_until[p]
             /\ store'[call[p].key].valid_until = valid_until[p]]_vars

\* A fetch with a duration was called in one millisecond, its producer
\* returned in a later one, and the entry it wrote expires the duration
\* after the later one.
C19_Witness ==
  \E p \in Procs :
    /\ Stands(p, "fetch")
    /\ invoked[p] = 1
    /\ call[p].expires_in.some
    /\ began[p] < at[p] \div TicksPerMilli
    /\ store[call[p].key].valid_until =
         (at[p] \div TicksPerMilli)
         + (call[p].expires_in.dur \div TicksPerMilli)
    /\ store[call[p].key].valid_until >
         began[p] + (call[p].expires_in.dur \div TicksPerMilli)

====
